---- MODULE Spec2Model ----
(***************************************************************************)
(* Terminal session lifecycle of crates/project/src/terminals.rs:          *)
(* Project::create_terminal, the release observer it installs, the remote  *)
(* forwarding closure, and the virtual-environment activation helpers.     *)
(***************************************************************************)
EXTENDS Integers, Sequences, FiniteSets, TLC

\* ------------------------------------------------------------------ bounds

\* entity ids handed out by cx.new_model in one behaviour
MaxSessions == 2
\* externally sourced writes kept in one session's input stream
MaxExternal == 1
\* candidate names in VenvSettingsContent.directories
MaxDirs == 2
\* input chunks handed to one remote forwarding closure
MaxChunks == 3
\* remote forwarding closures running side by side
MaxRemote == 2
\* local worktrees of the project
MaxWorktrees == 2

\* ------------------------------------------------------------------- paths

\* A Path is [abs |-> BOOLEAN, comps |-> sequence of components]; a component
\* is a sequence of one-character strings (its bytes).
NoPath == [none |-> TRUE]

EmptyPath == [abs |-> FALSE, comps |-> <<>>]

RelPath(name) == [abs |-> FALSE, comps |-> <<name>>]

\* Path::join: an absolute right-hand side replaces the left-hand side.
PathJoin(p, q) ==
    IF q.abs THEN q ELSE [abs |-> p.abs, comps |-> p.comps \o q.comps]

RECURSIVE JoinComps(_)
JoinComps(cs) ==
    IF cs = <<>> THEN <<>>
    ELSE IF Len(cs) = 1 THEN cs[1]
    ELSE cs[1] \o <<"/">> \o JoinComps(Tail(cs))

\* OsStr::as_encoded_bytes of a path: the components separated by '/'.
PathBytes(p) == (IF p.abs THEN <<"/">> ELSE <<>>) \o JoinComps(p.comps)

BinName == <<"b", "i", "n">>

\* directory names a user may list in detect_venv.directories
VenvName == <<"v", "e", "n", "v">>
EnvName == <<"e", "n", "v">>
SpacedName == <<"m", "y", " ", "e">>

DirNames == {VenvName, EnvName, SpacedName}

\* working directories a caller may pass
ProjectDir == [abs |-> TRUE, comps |-> <<<<"p">>>>]
ColonDir == [abs |-> TRUE, comps |-> <<<<"c", ":", "d">>>>]
SpacedDir == [abs |-> TRUE, comps |-> <<<<"a", " ", "b">>>>]
QuotedDir == [abs |-> TRUE, comps |-> <<<<"q", "\"">>>>]

\* ------------------------------------------------- activation script lookup

ActivateScripts == {"Default", "Csh", "Fish", "Nushell"}

ActivateName == <<"a", "c", "t", "i", "v", "a", "t", "e">>

\* match settings.activate_script { ... } of find_activate_script_path
ActivateScriptName(activate_script) ==
    CASE activate_script = "Default" -> ActivateName
      [] activate_script = "Csh" -> ActivateName \o <<".", "c", "s", "h">>
      [] activate_script = "Fish" -> ActivateName \o <<".", "f", "i", "s", "h">>
      [] activate_script = "Nushell" -> ActivateName \o <<".", "n", "u">>

\* the path probed for one candidate name
CandidatePath(settings, venv_base_directory, virtual_environment_name) ==
    PathJoin(PathJoin(PathJoin(venv_base_directory,
                               RelPath(virtual_environment_name)),
                      RelPath(BinName)),
             RelPath(ActivateScriptName(settings.activate_script)))

\* Iterator::find_map over settings.directories with path.exists()
RECURSIVE FindMapBug(_, _, _, _)
FindMapBug(settings, venv_base_directory, fs, i) ==
    IF i < 1 THEN NoPath
    ELSE LET path == CandidatePath(settings, venv_base_directory,
                                   settings.directories[i])
         IN IF path \in fs THEN path
            ELSE FindMapBug(settings, venv_base_directory, fs, i - 1)

RECURSIVE FindMap(_, _, _, _)
FindMap(settings, venv_base_directory, fs, i) ==
    IF i > Len(settings.directories) THEN NoPath
    ELSE LET path == CandidatePath(settings, venv_base_directory,
                                   settings.directories[i])
         IN IF path \in fs THEN path
            ELSE FindMap(settings, venv_base_directory, fs, i + 1)

\* a slip: every candidate is checked before the first hit is picked
RECURSIVE ExistenceChecksEager(_, _, _, _)
ExistenceChecksEager(settings, venv_base_directory, fs, i) ==
    IF i > Len(settings.directories) THEN <<>>
    ELSE <<CandidatePath(settings, venv_base_directory,
                         settings.directories[i])>>
             \o ExistenceChecksEager(settings, venv_base_directory, fs, i + 1)

\* the path.exists() calls the find_map of find_activate_script_path makes,
\* in the order it makes them: the closure runs for one name after the
\* other and the iteration ends at the first Some
RECURSIVE ExistenceChecks(_, _, _, _)
ExistenceChecks(settings, venv_base_directory, fs, i) ==
    IF i > Len(settings.directories) THEN <<>>
    ELSE LET path == CandidatePath(settings, venv_base_directory,
                                   settings.directories[i])
         IN IF path \in fs THEN <<path>>
            ELSE <<path>> \o ExistenceChecks(settings, venv_base_directory,
                                             fs, i + 1)

find_activate_script_path_last(settings, venv_base_directory, fs) ==
    FindMapBug(settings, venv_base_directory, fs, Len(settings.directories))

find_activate_script_path(settings, venv_base_directory, fs) ==
    FindMap(settings, venv_base_directory, fs, 1)

\* ------------------------------------------------------ activation command

SourceVerb == <<"s", "o", "u", "r", "c", "e">>
OverlayVerb == <<"o", "v", "e", "r", "l", "a", "y", " ", "u", "s", "e">>

get_activate_command(settings) ==
    IF settings.activate_script = "Nushell" THEN OverlayVerb ELSE SourceVerb

\* the Vec<u8> built by activate_python_virtual_environment
ActivateCommandUnquoted(activate_command, activate_script) ==
    activate_command \o <<" ">> \o PathBytes(activate_script) \o <<"\n">>

ActivateCommand(activate_command, activate_script) ==
    activate_command \o <<" ">> \o <<"\"">> \o PathBytes(activate_script)
        \o <<"\"">> \o <<"\n">>

\* ------------------------------------------------------- task environment

\* An environment is a function from variable names to values (sequences of
\* one-character strings).
EmptyEnv == [k \in {} |-> <<>>]

\* HashMap::extend: an entry of `other` replaces the entry of the same key
EnvExtend(env, other) ==
    [k \in DOMAIN env \cup DOMAIN other |->
        IF k \in DOMAIN other THEN other[k] ELSE env[k]]

\* HashMap::insert
EnvInsert(env, key, value) ==
    [k \in DOMAIN env \cup {key} |-> IF k = key THEN value ELSE env[k]]

\* std::env::var_os("PATH"): None when the variable is not set
NoVar == [set |-> FALSE]
SomeVar(value) == [set |-> TRUE, value |-> value]

UsrBinPath ==
    <<"/", "u", "s", "r", "/", "b", "i", "n", ":", "/", "b", "i", "n">>

\* std::env::split_paths on Unix: the pieces between ':' separators
RECURSIVE SplitPaths(_)
SplitPaths(paths) ==
    IF \A i \in 1..Len(paths) : paths[i] # ":"
    THEN <<paths>>
    ELSE LET i == CHOOSE i \in 1..Len(paths) :
                      /\ paths[i] = ":"
                      /\ \A j \in 1..(i - 1) : paths[j] # ":"
         IN <<SubSeq(paths, 1, i - 1)>>
                \o SplitPaths(SubSeq(paths, i + 1, Len(paths)))

RECURSIVE JoinWithColon(_)
JoinWithColon(pieces) ==
    IF pieces = <<>> THEN <<>>
    ELSE IF Len(pieces) = 1 THEN pieces[1]
    ELSE pieces[1] \o <<":">> \o JoinWithColon(Tail(pieces))

\* std::env::join_paths on Unix: Err(JoinPathsError) when a piece contains
\* the separator, else the pieces joined by ':'
JoinPaths(pieces) ==
    IF \E i \in 1..Len(pieces) : \E j \in 1..Len(pieces[i]) : pieces[i][j] = ":"
    THEN [ok |-> FALSE]
    ELSE [ok |-> TRUE, value |-> JoinWithColon(pieces)]

\* a slip: the root is taken from the candidate whose activation script
\* exists, as find_activate_script_path does
RECURSIVE FindVenvRootOfScript(_, _, _, _)
FindVenvRootOfScript(settings, venv_base_directory, files, i) ==
    IF i > Len(settings.directories) THEN NoPath
    ELSE LET path == PathJoin(venv_base_directory,
                              RelPath(settings.directories[i]))
         IN IF CandidatePath(settings, venv_base_directory,
                             settings.directories[i]) \in files
            THEN path
            ELSE FindVenvRootOfScript(settings, venv_base_directory, files,
                                      i + 1)

\* a slip: the first listed name is taken without asking whether it exists
FindVenvRootUnchecked(settings, venv_base_directory, files, i) ==
    IF i > Len(settings.directories) THEN NoPath
    ELSE PathJoin(venv_base_directory, RelPath(settings.directories[i]))

\* the find_map of set_python_venv_path_for_tasks: the first listed name whose
\* directory venv_base_directory/name exists
RECURSIVE FindVenvRoot(_, _, _, _)
FindVenvRoot(settings, venv_base_directory, files, i) ==
    IF i > Len(settings.directories) THEN NoPath
    ELSE LET path == PathJoin(venv_base_directory,
                              RelPath(settings.directories[i]))
         IN IF path \in files THEN path
            ELSE FindVenvRoot(settings, venv_base_directory, files, i + 1)

\* a slip: the existing PATH entries are put in front of the venv's bin
PathWithVenvBinLast(path_bin, paths) ==
    JoinPaths(SplitPaths(paths) \o <<PathBytes(path_bin)>>)

\* join_paths(once(path_bin).chain(split_paths(&paths)))
PathWithVenvBin(path_bin, paths) ==
    JoinPaths(<<PathBytes(path_bin)>> \o SplitPaths(paths))

\* Project::set_python_venv_path_for_tasks: the env it leaves behind;
\* process_path is std::env::var_os("PATH")
set_python_venv_path_for_tasks(settings, venv_base_directory, env, files, process_path) ==
    LET activate_path == FindVenvRoot(settings, venv_base_directory, files, 1)
    IN IF activate_path = NoPath THEN env
       ELSE LET with_venv == EnvInsert(env, "VIRTUAL_ENV",
                                       PathBytes(activate_path))
                path_bin == PathJoin(activate_path, RelPath(BinName))
            IN IF process_path.set
               THEN LET new_path == PathWithVenvBin(path_bin,
                                                    process_path.value)
                    IN IF new_path.ok
                       THEN EnvInsert(with_venv, "PATH", new_path.value)
                       ELSE with_venv
               ELSE EnvInsert(with_venv, "PATH", PathBytes(path_bin))

\* a slip: the venv variables are injected for every kind of session
BuildEnvInjectingAlways(settings_env, spawn_task, python_settings, venv_base_directory, files, process_path) ==
    LET env == IF spawn_task = [none |-> TRUE] THEN settings_env
               ELSE EnvExtend(settings_env, spawn_task.env)
    IN IF python_settings.on
       THEN set_python_venv_path_for_tasks(python_settings,
                venv_base_directory, env, files, process_path)
       ELSE env

\* the `env` create_terminal hands to TerminalBuilder::new: settings.env,
\* for a task extended by the task's env and then by the venv variables
BuildEnv(settings_env, spawn_task, python_settings, venv_base_directory, files, process_path) ==
    IF spawn_task = [none |-> TRUE] THEN settings_env
    ELSE LET env == EnvExtend(settings_env, spawn_task.env)
         IN IF python_settings.on
            THEN set_python_venv_path_for_tasks(python_settings,
                     venv_base_directory, env, files, process_path)
            ELSE env

\* ------------------------------------------------------------------- state

VARIABLES
    is_remote,        \* Project::is_remote()
    remote_id,        \* Project::remote_id(): 0 for None
    detect_venv,      \* TerminalSettings.detect_venv
    fs,               \* the paths for which Path::exists holds
    local_handles,    \* Terminals.local_handles: entity ids of the weak handles
    remote_handles,   \* Terminals.remote_handles: the terminal ids with a sender
    entities,         \* per entity id: "none", "live", "dropped", "released"
    terminal,         \* per entity id: what the session was built from
    holders,          \* per entity id: strong handles held by callers
    observers,        \* entity ids with a release observer installed
    input,            \* per entity id: the writes made to the session's input
    pc,               \* position of the create_terminal call in flight
    call,             \* arguments and locals of the call in flight
    result,           \* how the call that has just ended ended, until the
                      \* caller goes on
    next_entity_id,   \* the id cx.new_model hands out next
    observer_runs,    \* per entity id: runs of its release observer
    removals,         \* per entity id: handles.remove(index) calls made for it
    probe,            \* one application of the activation helpers
    build,            \* one application of the argument-building stage
    forward           \* per remote terminal: its input forwarding loop

vars == <<is_remote, remote_id, detect_venv, fs, local_handles, remote_handles,
          entities, terminal, holders, observers, input, pc, call, result,
          next_entity_id, observer_runs, removals, probe, forward, build>>

EntityIds == 1..MaxSessions

NoTask == [none |-> TRUE]

\* a SpawnInTerminal; cwd is its optional working directory
SpawnTasks ==
    {[cwd |-> c, env |-> EmptyEnv] : c \in {NoPath, ProjectDir}}

WorkingDirectories == {NoPath, ProjectDir, SpacedDir}

\* who may hold a strong Model<Terminal>: the caller of create_terminal and
\* a view the caller hands a clone to
Holders == {"caller", "view"}

NoCall == [none |-> TRUE]

NoResult == [kind |-> "none"]

VenvOff == [on |-> FALSE]

DefaultVenv ==
    [on |-> TRUE, activate_script |-> "Default",
     directories |-> <<VenvName, EnvName>>]

NushellVenv ==
    [on |-> TRUE, activate_script |-> "Nushell",
     directories |-> <<VenvName, SpacedName>>]

\* the settings and file systems the lifecycle is explored under: detection
\* off with environments on disk; detection on with, under the project
\* directory, a first candidate that lacks the script of the dialect and a
\* second one that has it, and no candidate under the empty base
LifecycleScenarios ==
    { [detect_venv |-> VenvOff,
       fs |-> {PathJoin(ProjectDir, RelPath(VenvName)),
               CandidatePath(DefaultVenv, ProjectDir, VenvName),
               PathJoin(EmptyPath, RelPath(VenvName)),
               CandidatePath(DefaultVenv, EmptyPath, VenvName)}],
      [detect_venv |-> NushellVenv,
       fs |-> {PathJoin(ProjectDir, RelPath(VenvName)),
               CandidatePath(DefaultVenv, ProjectDir, VenvName),
               PathJoin(ProjectDir, RelPath(SpacedName)),
               CandidatePath(NushellVenv, ProjectDir, SpacedName)}] }

\* settings.env, the task and the inherited PATH of the lifecycle
LifecycleSettingsEnv == [k \in {"A"} |-> <<"1">>]

LifecycleTask ==
    [cwd |-> NoPath,
     env |-> [k \in {"A", "B"} |-> IF k = "A" THEN <<"2">> ELSE <<"3">>]]

LifecycleProcessPath == SomeVar(UsrBinPath)

\* remote_id() is read on the remote branch only
ProjectKinds ==
    { [is_remote |-> FALSE, remote_id |-> 0],
      [is_remote |-> TRUE, remote_id |-> 0],
      [is_remote |-> TRUE, remote_id |-> 1] }

NoProbe == [step |-> "none"]

NoForward == <<>>

NoBuild == [step |-> "none"]

NoSessions ==
    /\ entities = [id \in EntityIds |-> "none"]
    /\ terminal = [id \in EntityIds |-> NoCall]
    /\ holders = [id \in EntityIds |-> {}]
    /\ observers = {}
    /\ input = [id \in EntityIds |-> <<>>]
    /\ pc = "idle"
    /\ call = NoCall
    /\ result = NoResult
    /\ next_entity_id = 1
    /\ observer_runs = [id \in EntityIds |-> 0]
    /\ removals = [id \in EntityIds |-> 0]

LocalLifecycle ==
    /\ local_handles = <<>>
    /\ NoSessions

Lifecycle ==
    /\ LocalLifecycle
    /\ remote_handles = {}

Init ==
    /\ \E kind \in ProjectKinds :
           /\ is_remote = kind.is_remote
           /\ remote_id = kind.remote_id
    /\ \E scenario \in LifecycleScenarios :
           /\ detect_venv = scenario.detect_venv
           /\ fs = scenario.fs
    /\ Lifecycle
    /\ probe = NoProbe
    /\ forward = NoForward
    /\ build = NoBuild

\* what no step of the lifecycle writes
project_vars ==
    <<is_remote, remote_id, detect_venv, fs, probe, forward, build>>

\* --------------------------------------------------------- release observer

\* handles.iter().position(|terminal| terminal.entity_id() == id); 0 for None
Position(handles, id) ==
    IF \E i \in 1..Len(handles) : handles[i] = id
    THEN CHOOSE i \in 1..Len(handles) :
             /\ handles[i] = id
             /\ \A j \in 1..(i - 1) : handles[j] # id
    ELSE 0

\* Vec::remove(index), index counted from 1: panics when out of bounds
VecRemove(handles, index) ==
    IF index \in 1..Len(handles)
    THEN [panicked |-> FALSE,
          handles |-> [i \in 1..(Len(handles) - 1) |->
                          IF i < index THEN handles[i] ELSE handles[i + 1]]]
    ELSE [panicked |-> TRUE, handles |-> handles]

\* a slip: the entry of the released terminal is not looked up, the last
\* entry is dropped instead
ReleaseObserverPop(handles, id) ==
    IF handles # <<>>
    THEN [handles |-> SubSeq(handles, 1, Len(handles) - 1),
          removed |-> TRUE, notified |-> TRUE, panicked |-> FALSE]
    ELSE [handles |-> handles,
          removed |-> FALSE, notified |-> FALSE, panicked |-> FALSE]

\* a slip: the index is used without the `if let Some(index)` test
ReleaseObserverUnchecked(handles, id) ==
    LET r == VecRemove(handles, Position(handles, id))
    IN [handles |-> r.handles, removed |-> ~r.panicked,
        notified |-> ~r.panicked, panicked |-> r.panicked]

\* a slip: Vec::swap_remove, which moves the last entry into the gap
ReleaseObserverSwapRemove(handles, id) ==
    LET index == Position(handles, id)
    IN IF index # 0
       THEN [handles |-> [i \in 1..(Len(handles) - 1) |->
                             IF i = index THEN handles[Len(handles)]
                             ELSE handles[i]],
             removed |-> TRUE, notified |-> TRUE, panicked |-> FALSE]
       ELSE [handles |-> handles,
             removed |-> FALSE, notified |-> FALSE, panicked |-> FALSE]

\* the callback given to cx.observe_release
ReleaseObserver(handles, id) ==
    LET index == Position(handles, id)
    IN IF index # 0
       THEN LET r == VecRemove(handles, index)
            IN [handles |-> r.handles, removed |-> ~r.panicked,
                notified |-> ~r.panicked, panicked |-> r.panicked]
       ELSE [handles |-> handles,
             removed |-> FALSE, notified |-> FALSE, panicked |-> FALSE]

\* --------------------------------------------------------- create_terminal

\* a slip: with no working directory the project's directory is probed
VenvBaseDirectoryOrProject(working_directory) ==
    IF working_directory = NoPath THEN ProjectDir ELSE working_directory

\* working_directory.as_deref().unwrap_or_else(|| Path::new(""))
VenvBaseDirectory(working_directory) ==
    IF working_directory = NoPath THEN EmptyPath ELSE working_directory

\* a slip: the activation is not restricted to interactive sessions
ActivationWritesAnyKind(is_terminal, python_settings, venv_base_directory, files) ==
    IF python_settings.on
    THEN LET activate_script_path ==
                 find_activate_script_path(python_settings,
                                           venv_base_directory, files)
         IN IF activate_script_path # NoPath
            THEN << [src |-> "activate",
                     bytes |-> ActivateCommand(
                                   get_activate_command(python_settings),
                                   activate_script_path)] >>
            ELSE <<>>
    ELSE <<>>

\* `if is_terminal { if let Some(python_settings) ... }`: the writes that
\* activate_python_virtual_environment makes to the new terminal's input
ActivationWrites(is_terminal, python_settings, venv_base_directory, files) ==
    IF is_terminal /\ python_settings.on
    THEN LET activate_script_path ==
                 find_activate_script_path(python_settings,
                                           venv_base_directory, files)
         IN IF activate_script_path # NoPath
            THEN << [src |-> "activate",
                     bytes |-> ActivateCommand(
                                   get_activate_command(python_settings),
                                   activate_script_path)] >>
            ELSE <<>>
    ELSE <<>>

\* a slip: the activation command is sent before the handle is registered
StepAfterEarlyActivate(step) ==
    CASE step = "builder" -> "new_model"
      [] step = "new_model" -> "activate"
      [] step = "activate" -> "push"
      [] step = "push" -> "observe"
      [] step = "observe" -> "return"

\* the order of the statements of the closure given to .map(|builder| ...)
StepAfter(step) ==
    CASE step = "builder" -> "new_model"
      [] step = "new_model" -> "push"
      [] step = "push" -> "observe"
      [] step = "observe" -> "activate"
      [] step = "activate" -> "return"

\* how a call ended: "ok", "err" or "panic"; whether process/PTY
\* construction was failing during it; whether it left both registries as
\* they were when it began
Finished(kind, pty_ok, pre_local, pre_remote) ==
    [kind |-> kind,
     pty_ok |-> pty_ok,
     handles_unchanged |-> /\ local_handles = pre_local
                           /\ remote_handles = pre_remote]

\* create_terminal on a remote project:
\* `let new_terminal_id = if true { todo!("TODO kb ") } else { 0 };`
\* panics before remote_id(), RemotePty::new and remote_handles.insert are
\* reached
CreateTerminalRemote(working_directory, spawn_task, pty_ok) ==
    /\ pc = "idle"
    /\ is_remote
    /\ pc' = "panicked"
    /\ result' = Finished("panic", pty_ok, local_handles, remote_handles)
    /\ UNCHANGED <<project_vars, local_handles, remote_handles, entities,
                   terminal, holders, observers, input, call, next_entity_id,
                   observer_runs, removals>>

\* create_terminal on a local project up to TerminalBuilder::new(...): an Err
\* skips the .map closure and is returned; an Ok enters the closure
CreateTerminal(working_directory, spawn_task, pty_ok) ==
    /\ pc = "idle"
    /\ ~is_remote
    /\ IF pty_ok
       THEN /\ next_entity_id <= MaxSessions
            /\ call' = [working_directory |-> working_directory,
                        spawn_task |-> spawn_task,
                        env |-> BuildEnv(LifecycleSettingsEnv, spawn_task,
                                    detect_venv,
                                    VenvBaseDirectory(working_directory), fs,
                                    LifecycleProcessPath),
                        id |-> 0,
                        pre_local |-> local_handles,
                        pre_remote |-> remote_handles]
            /\ pc' = StepAfter("builder")
            /\ result' = NoResult
       ELSE /\ result' = Finished("err", pty_ok, local_handles, remote_handles)
            /\ UNCHANGED <<pc, call>>
    /\ UNCHANGED <<project_vars, local_handles, remote_handles, entities,
                   terminal, holders, observers, input, next_entity_id,
                   observer_runs, removals>>

\* cx.new_model(|cx| builder.subscribe(cx))
NewModel ==
    /\ pc = "new_model"
    /\ call' = [call EXCEPT !.id = next_entity_id]
    /\ next_entity_id' = next_entity_id + 1
    /\ entities' = [entities EXCEPT ![next_entity_id] = "live"]
    /\ terminal' = [terminal EXCEPT ![next_entity_id] =
                       [task |-> call.spawn_task # NoTask,
                        working_directory |-> call.working_directory,
                        env |-> call.env]]
    /\ pc' = StepAfter("new_model")
    /\ UNCHANGED <<project_vars, local_handles, remote_handles, holders,
                   observers, input, result, observer_runs, removals>>

\* a slip: the handle is pushed twice
PushedTwice(handles, id) == Append(Append(handles, id), id)

\* local_handles.push(terminal_handle.downgrade())
Pushed(handles, id) == Append(handles, id)

PushHandle ==
    /\ pc = "push"
    /\ local_handles' = Pushed(local_handles, call.id)
    /\ pc' = StepAfter("push")
    /\ UNCHANGED <<project_vars, remote_handles, entities, terminal, holders,
                   observers, input, call, result, next_entity_id,
                   observer_runs, removals>>

\* cx.observe_release(&terminal_handle, ...).detach()
ObserveRelease ==
    /\ pc = "observe"
    /\ observers' = observers \cup {call.id}
    /\ pc' = StepAfter("observe")
    /\ UNCHANGED <<project_vars, local_handles, remote_handles, entities,
                   terminal, holders, input, call, result, next_entity_id,
                   observer_runs, removals>>

\* the `if is_terminal { ... }` block after the observer is installed
Activate ==
    /\ pc = "activate"
    /\ input' = [input EXCEPT ![call.id] =
                    @ \o ActivationWrites(call.spawn_task = NoTask, detect_venv,
                             VenvBaseDirectory(call.working_directory), fs)]
    /\ pc' = StepAfter("activate")
    /\ UNCHANGED <<project_vars, local_handles, remote_handles, entities,
                   terminal, holders, observers, call, result, next_entity_id,
                   observer_runs, removals>>

\* `terminal_handle` is the closure's value: Ok(handle) reaches the caller
Return ==
    /\ pc = "return"
    /\ holders' = [holders EXCEPT ![call.id] = {"caller"}]
    /\ result' = Finished("ok", TRUE, call.pre_local, call.pre_remote)
    /\ call' = NoCall
    /\ pc' = "idle"
    /\ UNCHANGED <<project_vars, local_handles, remote_handles, entities,
                   terminal, observers, input, next_entity_id, observer_runs,
                   removals>>

\* ----------------------------------------------------- handles and release

\* a holder hands a clone of its Model<Terminal> to `h`
CloneHandle(id, h) ==
    /\ pc = "idle"
    /\ holders[id] # {}
    /\ h \notin holders[id]
    /\ holders' = [holders EXCEPT ![id] = @ \cup {h}]
    /\ result' = NoResult
    /\ UNCHANGED <<project_vars, local_handles, remote_handles, entities,
                   terminal, observers, input, pc, call, next_entity_id, observer_runs, removals>>

\* `h` drops its Model<Terminal>; the last drop leaves the entity to be
\* released when effects are flushed
DropHandle(id, h) ==
    /\ pc = "idle"
    /\ h \in holders[id]
    /\ holders' = [holders EXCEPT ![id] = @ \ {h}]
    /\ entities' = IF holders[id] = {h}
                   THEN [entities EXCEPT ![id] = "dropped"]
                   ELSE entities
    /\ result' = NoResult
    /\ UNCHANGED <<project_vars, local_handles, remote_handles, terminal,
                   observers, input, pc, call, next_entity_id,
                   observer_runs, removals>>

\* what one run of the release observer of `id` does to the project
RunObserver(id) ==
    LET r == ReleaseObserver(local_handles, id)
    IN /\ local_handles' = r.handles
       /\ observer_runs' = [observer_runs EXCEPT ![id] = @ + 1]
       /\ removals' = [removals EXCEPT ![id] = @ + (IF r.removed THEN 1 ELSE 0)]
       /\ pc' = IF r.panicked THEN "panicked" ELSE pc

\* the entity is released: the Terminal and its input are gone, and its
\* release observer, if installed, is run once
ReleaseEntity(id) ==
    /\ pc = "idle"
    /\ entities[id] = "dropped"
    /\ entities' = [entities EXCEPT ![id] = "released"]
    /\ terminal' = [terminal EXCEPT ![id] = NoCall]
    /\ input' = [input EXCEPT ![id] = <<>>]
    /\ IF id \in observers
       THEN RunObserver(id)
       ELSE UNCHANGED <<local_handles, observer_runs, removals, pc>>
    /\ observers' = observers \ {id}
    /\ result' = NoResult
    /\ UNCHANGED <<project_vars, remote_handles, holders, call,
                   next_entity_id>>

\* a test harness triggers the release notification of `id` a second time
Rerelease(id) ==
    /\ pc = "idle"
    /\ entities[id] = "released"
    /\ observer_runs[id] = 1
    /\ RunObserver(id)
    /\ result' = NoResult
    /\ UNCHANGED <<project_vars, remote_handles, entities, terminal, holders,
                   observers, input, call, next_entity_id>>

ExternalWrites(writes) ==
    Cardinality({i \in 1..Len(writes) : writes[i].src = "external"})

\* a holder of the handle sends input to the terminal
ExternalInput(id) ==
    /\ pc = "idle"
    /\ holders[id] # {}
    /\ ExternalWrites(input[id]) < MaxExternal
    /\ input' = [input EXCEPT ![id] =
                    Append(@, [src |-> "external", bytes |-> <<"x">>])]
    /\ result' = NoResult
    /\ UNCHANGED <<project_vars, local_handles, remote_handles, entities,
                   terminal, holders, observers, pc, call, next_entity_id,
                   observer_runs, removals>>

\* -------------------------------------------------------------- behaviours

CreateStep ==
    \/ \E working_directory \in {NoPath, ProjectDir},
          spawn_task \in {NoTask, LifecycleTask},
          pty_ok \in BOOLEAN :
           \/ CreateTerminalRemote(working_directory, spawn_task, pty_ok)
           \/ CreateTerminal(working_directory, spawn_task, pty_ok)
    \/ NewModel
    \/ PushHandle
    \/ ObserveRelease
    \/ Activate
    \/ Return

HandleStep ==
    \E id \in EntityIds :
        \/ \E h \in Holders : CloneHandle(id, h)
        \/ \E h \in Holders : DropHandle(id, h)
        \/ ReleaseEntity(id)
        \/ ExternalInput(id)

Next == CreateStep \/ HandleStep

Spec == Init /\ [][Next]_vars

\* the lifecycle with release notifications that may be delivered twice
NextRerelease == Next \/ \E id \in EntityIds : Rerelease(id)

SpecRerelease == Init /\ [][NextRerelease]_vars

\* ------------------------------------------------------ registry properties

Occurrences(handles, id) ==
    Cardinality({i \in 1..Len(handles) : handles[i] = id})

Registered(handles) == {handles[i] : i \in 1..Len(handles)}

ActivateWrites(writes) ==
    Cardinality({i \in 1..Len(writes) : writes[i].src = "activate"})

\* C1: between calls, local_handles holds exactly one entry for every session
\* that was created and is not yet released, and none for any other id.
C1_RegistryHoldsLiveSessions ==
    pc = "idle" =>
        /\ Registered(local_handles) \subseteq EntityIds
        /\ \A id \in EntityIds :
               Occurrences(local_handles, id) =
                   IF entities[id] \in {"live", "dropped"} THEN 1 ELSE 0

C1_Witness ==
    /\ pc = "idle"
    /\ result.kind = "err"
    /\ entities[1] = "released"
    /\ entities[2] = "live"
    /\ local_handles = <<2>>

\* C2: the release of a session removes its entry exactly once; a second run
\* of its release observer removes nothing, does not fail and leaves the
\* registry as it was.
C2_ReleaseRemovesOnce ==
    /\ [](\A id \in EntityIds :
              removals[id] = IF entities[id] = "released" THEN 1 ELSE 0)
    /\ [][\A id \in EntityIds :
              (observer_runs[id] = 1 /\ observer_runs'[id] = 2) =>
                  /\ local_handles' = local_handles
                  /\ removals' = removals
                  /\ pc' = pc]_vars

C2_Witness ==
    \E id \in EntityIds, other \in EntityIds :
        /\ observer_runs[id] = 2
        /\ removals[id] = 1
        /\ entities[other] = "live"
        /\ other \in Registered(local_handles)

C3_LocalConstructionFailure ==
    (~is_remote /\ result.kind # "none" /\ ~result.pty_ok) =>
        /\ result.kind = "err"
        /\ result.handles_unchanged

\* C4: the registry never holds two entries for one session id (local_handles
\* has no id twice; remote_handles, a map keyed by id that nothing reaches to
\* insert into, has no entry), and an entry leaves it only once, in the
\* release of its own session: not while the session is held, and not in any
\* step of a create_terminal call.
C4_OneEntryRemovedAtTeardown ==
    /\ [](/\ \A id \in EntityIds : Occurrences(local_handles, id) <= 1
          /\ \A id \in EntityIds : removals[id] <= 1
          /\ remote_handles = {})
    /\ [][\A id \in EntityIds :
              (id \in Registered(local_handles)
                  /\ id \notin Registered(local_handles')) =>
                  /\ pc = "idle"
                  /\ entities[id] = "dropped"
                  /\ entities'[id] = "released"
                  /\ holders[id] = {}
                  /\ Registered(local_handles') =
                         Registered(local_handles) \ {id}]_vars

C4_Witness ==
    /\ pc = "idle"
    /\ Len(local_handles) = 1
    /\ \E id \in EntityIds :
           /\ entities[id] = "released"
           /\ removals[id] = 1
           /\ id \notin Registered(local_handles)
    /\ \E id \in EntityIds : holders[id] = {"view"}

\* ---------------------------------------------------- activation properties

\* the call that creates `id` has returned its handle
Created(id) ==
    /\ entities[id] \in {"live", "dropped"}
    /\ ~(pc # "idle" /\ call # NoCall /\ call.id = id)

\* C7: a created session has the activation command in its input once when
\* it is interactive, detection is configured and a script is found, and not
\* at all otherwise.
C7_ActivationWrittenOnce ==
    \A id \in EntityIds :
        /\ ActivateWrites(input[id]) <= 1
        /\ Created(id) =>
               ActivateWrites(input[id]) =
                   IF /\ ~terminal[id].task
                      /\ detect_venv.on
                      /\ find_activate_script_path(
                             detect_venv,
                             VenvBaseDirectory(terminal[id].working_directory),
                             fs) # NoPath
                   THEN 1 ELSE 0

C7_Witness ==
    /\ pc = "idle"
    /\ detect_venv.on
    /\ entities[1] = "dropped"
    /\ ~terminal[1].task
    /\ ActivateWrites(input[1]) = 1
    /\ entities[2] = "live"
    /\ terminal[2].task
    /\ terminal[2].working_directory = terminal[1].working_directory
    /\ ActivateWrites(input[2]) = 0

\* C8: the activation command is written when the session exists and is in
\* local_handles, before the handle is held by anyone and before any other
\* input; external input in a stream follows the activation write.
C8_ActivationOrder ==
    /\ [](\A id \in EntityIds : \A i \in 1..Len(input[id]) :
              input[id][i].src = "activate" => i = 1)
    /\ [][\A id \in EntityIds :
              ActivateWrites(input'[id]) > ActivateWrites(input[id]) =>
                  /\ entities[id] = "live"
                  /\ id \in Registered(local_handles)
                  /\ id \in observers
                  /\ holders[id] = {}
                  /\ input[id] = <<>>]_vars

C8_Witness ==
    \E id \in EntityIds :
        /\ Len(input[id]) = 2
        /\ input[id][1].src = "activate"
        /\ input[id][2].src = "external"
        /\ id \in Registered(local_handles)

\* --------------------------------------- the activation helpers on their own

\* every detect_venv setting with at most MaxDirs candidate names
DirectoryLists == UNION {[1..n -> DirNames] : n \in 0..MaxDirs}

AllVenvSettings ==
    {[on |-> TRUE, activate_script |-> a, directories |-> d] :
        a \in ActivateScripts, d \in DirectoryLists}

ProbeBases == {EmptyPath, ProjectDir, SpacedDir, QuotedDir}

\* the files that may exist when `settings` is probed under `base`: the
\* scripts of the configured dialect and of the default one under every known
\* name, and one script under another base
ProbeFiles(settings, base) ==
    {CandidatePath([activate_script |-> a], base, n) :
        a \in {settings.activate_script, "Default"}, n \in DirNames}
    \cup {CandidatePath(settings,
                        IF base = ProjectDir THEN SpacedDir ELSE ProjectDir,
                        VenvName)}

InitActivate ==
    /\ is_remote = FALSE
    /\ remote_id = 0
    /\ detect_venv \in AllVenvSettings
    /\ \E base \in ProbeBases :
           /\ probe = [step |-> "input", base |-> base]
           /\ fs \in SUBSET ProbeFiles(detect_venv, base)
    /\ Lifecycle
    /\ forward = NoForward
    /\ build = NoBuild

\* self.find_activate_script_path(python_settings, venv_base_directory)
ProbeFind ==
    /\ probe.step = "input"
    /\ probe' = [step |-> "found",
                 base |-> probe.base,
                 found |-> find_activate_script_path(detect_venv, probe.base, fs),
                 checks |-> ExistenceChecks(detect_venv, probe.base, fs, 1)]
    /\ UNCHANGED <<is_remote, remote_id, detect_venv, fs, local_handles,
                   remote_handles, entities, terminal, holders, observers,
                   input, pc, call, result, next_entity_id, observer_runs,
                   removals, forward, build>>

\* the bytes activate_python_virtual_environment hands to input_bytes for the
\* script that was found
ProbeCommand ==
    /\ probe.step = "found"
    /\ probe.found # NoPath
    /\ probe' = [step |-> "command",
                 base |-> probe.base,
                 found |-> probe.found,
                 checks |-> probe.checks,
                 command |-> ActivateCommand(get_activate_command(detect_venv),
                                             probe.found)]
    /\ UNCHANGED <<is_remote, remote_id, detect_venv, fs, local_handles,
                   remote_handles, entities, terminal, holders, observers,
                   input, pc, call, result, next_entity_id, observer_runs,
                   removals, forward, build>>

NextActivate == ProbeFind \/ ProbeCommand

SpecActivate == InitActivate /\ [][NextActivate]_vars

\* C9: the script found is base_dir/name/bin/<script> of the first listed
\* name whose script exists, and none when no listed name has one.
C9_FirstExistingCandidate ==
    probe.step \in {"found", "command"} =>
        LET dirs == detect_venv.directories
            script(i) ==
                [abs |-> probe.base.abs,
                 comps |-> probe.base.comps \o
                     <<dirs[i], BinName,
                       ActivateScriptName(detect_venv.activate_script)>>]
            hits == {i \in 1..Len(dirs) : script(i) \in fs}
        IN IF hits = {}
           THEN probe.found = NoPath
           ELSE \E i \in hits :
                    /\ \A j \in hits : i <= j
                    /\ probe.found = script(i)

C9_Witness ==
    /\ probe.step = "found"
    /\ probe.base = ProjectDir
    /\ detect_venv.directories = <<VenvName, EnvName>>
    /\ detect_venv.activate_script = "Default"
    /\ CandidatePath(detect_venv, ProjectDir, VenvName) \notin fs
    /\ CandidatePath(detect_venv, EmptyPath, VenvName) \notin fs
    /\ probe.found = [abs |-> TRUE,
                      comps |-> << <<"p">>, EnvName, BinName, ActivateName >>]

\* C10: the command is the verb, a space, a double quote, the bytes of the
\* script path, a double quote and a newline; the verb is "overlay use" for
\* Nushell and "source" for every other dialect.
C10_ActivateCommandBytes ==
    probe.step = "command" =>
        LET verb == IF detect_venv.activate_script = "Nushell"
                    THEN <<"o", "v", "e", "r", "l", "a", "y", " ", "u", "s", "e">>
                    ELSE <<"s", "o", "u", "r", "c", "e">>
            path == PathBytes(probe.found)
            bytes == probe.command
            n == Len(verb)
            m == Len(path)
        IN /\ Len(bytes) = n + m + 4
           /\ SubSeq(bytes, 1, n) = verb
           /\ bytes[n + 1] = " "
           /\ bytes[n + 2] = "\""
           /\ SubSeq(bytes, n + 3, n + 2 + m) = path
           /\ bytes[n + m + 3] = "\""
           /\ bytes[n + m + 4] = "\n"

C10_Witness ==
    /\ probe.step = "command"
    /\ detect_venv.activate_script = "Nushell"
    /\ probe.base = SpacedDir
    /\ probe.found.comps[2] = SpacedName
    /\ probe.command =
           <<"o", "v", "e", "r", "l", "a", "y", " ", "u", "s", "e", " ", "\"",
             "/", "a", " ", "b", "/", "m", "y", " ", "e", "/", "b", "i", "n",
             "/", "a", "c", "t", "i", "v", "a", "t", "e", ".", "n", "u",
             "\"", "\n">>

\* ------------------------------------------------ remote input forwarding

RemoteTerminalIds == 1..MaxRemote

\* Result::log_err(): Ok(response) is Some(response), Err is logged and None
LogErr(acknowledged) == IF acknowledged THEN "Some" ELSE "None"

\* a slip: the failure of the request is not looked at
ForwardInputIgnoringFailure(response) == "Continue"

\* a slip: the closure breaks whatever the response was
ForwardInputBreakingAlways(response) == "Break"

\* the match of the closure given to RemotePty::new:
\* Some(_response) => ControlFlow::Continue(()), None => ControlFlow::Break(())
ForwardInput(response) ==
    IF response = "Some" THEN "Continue" ELSE "Break"

\* proto::InputRemoteTerminal { project_id, terminal_id, data }
InputRemoteTerminal(project_id, terminal_id, data) ==
    [project_id |-> project_id, terminal_id |-> terminal_id, data |-> data]

\* forwarding closures installed, and their senders registered, for
\* MaxRemote remote terminals of a remote project that has a remote id
InitForward ==
    /\ is_remote = TRUE
    /\ remote_id \in {1, 2}
    /\ detect_venv = VenvOff
    /\ fs = {}
    /\ LocalLifecycle
    /\ remote_handles = RemoteTerminalIds
    /\ probe = NoProbe
    /\ build = NoBuild
    /\ forward = [t \in RemoteTerminalIds |->
                     [state |-> "open", requests |-> <<>>,
                      acknowledged |-> <<>>, flows |-> <<>>]]

\* the loop hands the next input chunk to the closure, which issues
\* client.request(proto::InputRemoteTerminal { .. }) and awaits the response
ForwardChunk(t) ==
    /\ forward[t].state = "open"
    /\ Len(forward[t].requests) < MaxChunks
    /\ forward' = [forward EXCEPT
           ![t].state = "awaiting",
           ![t].requests = Append(@, InputRemoteTerminal(remote_id, t,
                                         Len(forward[t].requests) + 1))]
    /\ UNCHANGED <<is_remote, remote_id, detect_venv, fs, local_handles,
                   remote_handles, entities, terminal, holders, observers,
                   input, pc, call, result, next_entity_id, observer_runs,
                   removals, probe, build>>

\* the request completes; the closure's ControlFlow decides whether the loop
\* goes on: Break ends the loop and closes the session
ForwardResponse(t, acknowledged) ==
    /\ forward[t].state = "awaiting"
    /\ LET flow == ForwardInput(LogErr(acknowledged))
       IN forward' = [forward EXCEPT
              ![t].state = IF flow = "Continue" THEN "open" ELSE "closed",
              ![t].acknowledged = Append(@, acknowledged),
              ![t].flows = Append(@, flow)]
    /\ UNCHANGED <<is_remote, remote_id, detect_venv, fs, local_handles,
                   remote_handles, entities, terminal, holders, observers,
                   input, pc, call, result, next_entity_id, observer_runs,
                   removals, probe, build>>

NextForward ==
    \E t \in RemoteTerminalIds :
        \/ ForwardChunk(t)
        \/ \E acknowledged \in BOOLEAN : ForwardResponse(t, acknowledged)

SpecForward == InitForward /\ [][NextForward]_vars

C6_RemoteEntryRegisteredAtCreation ==
    (/\ is_remote
     /\ remote_id # 0
     /\ result.kind # "none"
     /\ result.pty_ok) => remote_handles # {}

\* ------------------------------------ the environment of a task on its own

\* settings.env
SettingsEnvs ==
    { [k \in {"A"} |-> <<"1">>],
      [k \in {"A", "PATH"} |-> IF k = "A" THEN <<"1">> ELSE <<"/", "s">>] }

\* SpawnInTerminal.env
TaskEnvs ==
    { EmptyEnv,
      [k \in {"A", "B"} |-> IF k = "A" THEN <<"2">> ELSE <<"3">>],
      [k \in {"PATH"} |-> <<"/", "t">>],
      [k \in {"A", "VIRTUAL_ENV"} |-> IF k = "A" THEN <<"2">> ELSE <<"/", "t">>] }

\* an inherited PATH with an empty entry and a repeated one
RepeatedPath == <<"/", "b", ":", ":", "/", "b">>

\* what std::env::var_os("PATH") may return
ProcessPaths ==
    {NoVar} \cup {SomeVar(paths) : paths \in {<<>>, UsrBinPath, RepeatedPath}}

EnvDirNames == {VenvName, EnvName}

EnvVenvSettings ==
    {VenvOff} \cup
    {[on |-> TRUE, activate_script |-> "Default", directories |-> d] :
        d \in UNION {[1..n -> EnvDirNames] : n \in 0..MaxDirs}}

EnvWorkingDirectories == {NoPath, ProjectDir, ColonDir}

\* the file systems under `base`: every candidate directory may be missing,
\* exist without the activation script, or exist with it
EnvFileSystems(base) ==
    LET root(n) == PathJoin(base, RelPath(n))
        script(n) == CandidatePath(DefaultVenv, base, n)
    IN {roots \cup {script(n) : n \in scripts} :
           roots \in SUBSET {root(n) : n \in EnvDirNames},
           scripts \in SUBSET EnvDirNames}
       \cap {files \in SUBSET ({root(n) : n \in EnvDirNames}
                                  \cup {script(n) : n \in EnvDirNames}) :
                \A n \in EnvDirNames : script(n) \in files => root(n) \in files}

InitEnv ==
    /\ is_remote = FALSE
    /\ remote_id = 0
    /\ detect_venv \in EnvVenvSettings
    /\ \E working_directory \in EnvWorkingDirectories :
           /\ fs \in EnvFileSystems(VenvBaseDirectory(working_directory))
           /\ \E settings_env \in SettingsEnvs, process_path \in ProcessPaths,
                 spawn_task \in {NoTask} \cup
                     {[cwd |-> NoPath, env |-> e] : e \in TaskEnvs} :
                  build = [step |-> "args",
                           working_directory |-> working_directory,
                           spawn_task |-> spawn_task,
                           settings_env |-> settings_env,
                           process_path |-> process_path,
                           root |-> NoPath,
                           env |-> EmptyEnv]
    /\ Lifecycle
    /\ probe = NoProbe
    /\ forward = NoForward

\* lines 97-115 of create_terminal: `env` as TerminalBuilder::new receives it
BuildTerminalEnv ==
    /\ build.step = "args"
    /\ LET venv_base_directory == VenvBaseDirectory(build.working_directory)
       IN build' =
              [build EXCEPT
                  !.step = "env",
                  !.root = IF build.spawn_task # NoTask /\ detect_venv.on
                           THEN FindVenvRoot(detect_venv, venv_base_directory,
                                             fs, 1)
                           ELSE NoPath,
                  !.env = BuildEnv(build.settings_env, build.spawn_task,
                                   detect_venv, venv_base_directory, fs,
                                   build.process_path)]
    /\ UNCHANGED <<is_remote, remote_id, detect_venv, fs, local_handles,
                   remote_handles, entities, terminal, holders, observers,
                   input, pc, call, result, next_entity_id, observer_runs,
                   removals, probe, forward>>

NextEnv == BuildTerminalEnv

SpecEnv == InitEnv /\ [][NextEnv]_vars

\* the session built is a task session
TaskEnvBuilt == build.step = "env" /\ build.spawn_task # NoTask

\* the venv variables were injected into the task's env
VenvInjected == TaskEnvBuilt /\ build.root # NoPath

\* C11: for a task session every key of the task's env has the task's value
\* in the env handed to the process: task entries always win.
C11_TaskEntriesAlwaysWin ==
    TaskEnvBuilt =>
        \A k \in DOMAIN build.spawn_task.env :
            /\ k \in DOMAIN build.env
            /\ build.env[k] = build.spawn_task.env[k]

\* the same for the keys the venv injection does not write
C11_TaskEntriesWinOutsideVenvKeys ==
    TaskEnvBuilt =>
        /\ \A k \in DOMAIN build.spawn_task.env \ {"VIRTUAL_ENV", "PATH"} :
               /\ k \in DOMAIN build.env
               /\ build.env[k] = build.spawn_task.env[k]
        /\ \A k \in (DOMAIN build.settings_env \ DOMAIN build.spawn_task.env)
                        \ {"VIRTUAL_ENV", "PATH"} :
               /\ k \in DOMAIN build.env
               /\ build.env[k] = build.settings_env[k]

\* the bytes of the bin directory of the root the injection found
VenvBinBytes == PathBytes(PathJoin(build.root, RelPath(BinName)))

\* the venv's bin directory followed by the inherited PATH, untouched
PrependedPath ==
    IF build.process_path.set
    THEN VenvBinBytes \o <<":">> \o build.process_path.value
    ELSE VenvBinBytes

OverlaidEnv == EnvExtend(build.settings_env, build.spawn_task.env)

C13_VirtualEnvIsAbsolute ==
    VenvInjected =>
        /\ "VIRTUAL_ENV" \in DOMAIN build.env
        /\ build.env["VIRTUAL_ENV"] = PathBytes(build.root)
        /\ build.env["VIRTUAL_ENV"][1] = "/"

\* what the injection does guarantee: VIRTUAL_ENV is the root as found, the
\* base directory joined with the first candidate name that exists, and it
\* is absolute when a working directory was passed
C13_VirtualEnvIsRootUnderBase ==
    VenvInjected =>
        /\ "VIRTUAL_ENV" \in DOMAIN build.env
        /\ build.env["VIRTUAL_ENV"] = PathBytes(build.root)
        /\ \E i \in 1..Len(detect_venv.directories) :
               build.root = PathJoin(VenvBaseDirectory(build.working_directory),
                                     RelPath(detect_venv.directories[i]))
        /\ build.working_directory # NoPath =>
               build.env["VIRTUAL_ENV"][1] = "/"

\* the root search has run: a task was built with venv detection on
RootSearched == TaskEnvBuilt /\ detect_venv.on

\* the candidate directory and the candidate script of the i-th listed name
CandidateRoot(i) ==
    PathJoin(VenvBaseDirectory(build.working_directory),
             RelPath(detect_venv.directories[i]))

CandidateScript(i) ==
    CandidatePath(detect_venv, VenvBaseDirectory(build.working_directory),
                  detect_venv.directories[i])

ScriptFound ==
    find_activate_script_path(detect_venv,
                              VenvBaseDirectory(build.working_directory), fs)

\* C14 as stated: the root selected for a task is the candidate directory
\* whose bin/<activate-script> find_activate_script_path selects, and none is
\* selected exactly when find_activate_script_path returns none.
C14_RootSearchIsScriptSearch ==
    RootSearched =>
        /\ build.root = NoPath <=> ScriptFound = NoPath
        /\ ScriptFound # NoPath =>
               \E i \in 1..Len(detect_venv.directories) :
                   /\ ScriptFound = CandidateScript(i)
                   /\ build.root = CandidateRoot(i)

\* C14: the root search walks the same candidates in the same order but
\* tests the candidate directory itself: the root is the first listed
\* directory that exists, none when no listed directory exists; it is the
\* directory of the script find_activate_script_path selects, or an earlier
\* one that exists without the script.
C14_RootIsFirstExistingDirectory ==
    RootSearched =>
        /\ build.root = NoPath <=>
               \A i \in 1..Len(detect_venv.directories) :
                   CandidateRoot(i) \notin fs
        /\ build.root # NoPath =>
               \E i \in 1..Len(detect_venv.directories) :
                   /\ build.root = CandidateRoot(i)
                   /\ CandidateRoot(i) \in fs
                   /\ \A j \in 1..(i - 1) : CandidateRoot(j) \notin fs
        /\ ScriptFound # NoPath =>
               \E i \in 1..Len(detect_venv.directories) :
                   /\ ScriptFound = CandidateScript(i)
                   /\ \E j \in 1..i :
                          /\ build.root = CandidateRoot(j)
                          /\ \A k \in j..(i - 1) : CandidateScript(k) \notin fs

C14_Witness ==
    /\ RootSearched
    /\ detect_venv.directories = <<VenvName, EnvName>>
    /\ build.root = PathJoin(ProjectDir, RelPath(VenvName))
    /\ ScriptFound = CandidatePath(DefaultVenv, ProjectDir, EnvName)

\* ------------------------------------------ the settings scope on its own

NoWorktree == [none |-> TRUE]

NoLocation == [none |-> TRUE]

\* directories a caller or a task may name
ScopeDirs == {ProjectDir, SpacedDir}

\* a worktree as settings see it, and the path inside it
Resolved ==
    {[worktree_id |-> w, path |-> r] :
        w \in 1..MaxWorktrees, r \in {EmptyPath, RelPath(<<"s">>)}}

\* a slip: the task's directory is tried before the explicit one
SettingsLocationTaskFirst(working_directory, spawn_task, find_local_worktree) ==
    LET terminal_cwd == working_directory
        task_cwd == IF spawn_task = [none |-> TRUE] THEN NoPath
                    ELSE spawn_task.cwd
        of_terminal == IF terminal_cwd = NoPath THEN NoWorktree
                       ELSE find_local_worktree[terminal_cwd]
        of_task == IF task_cwd = NoPath THEN NoWorktree
                   ELSE find_local_worktree[task_cwd]
    IN IF of_task # NoWorktree THEN of_task ELSE of_terminal

\* the `worktree` block of create_terminal and the SettingsLocation made of
\* it; find_local_worktree[p] is Project::find_local_worktree(p, cx)
SettingsLocation(working_directory, spawn_task, find_local_worktree) ==
    LET terminal_cwd == working_directory
        task_cwd == IF spawn_task = [none |-> TRUE] THEN NoPath
                    ELSE spawn_task.cwd
        of_terminal == IF terminal_cwd = NoPath THEN NoWorktree
                       ELSE find_local_worktree[terminal_cwd]
        of_task == IF task_cwd = NoPath THEN NoWorktree
                   ELSE find_local_worktree[task_cwd]
    IN IF of_terminal # NoWorktree THEN of_terminal ELSE of_task

InitScope ==
    /\ is_remote = FALSE
    /\ remote_id = 0
    /\ detect_venv = VenvOff
    /\ fs = {}
    /\ \E working_directory \in {NoPath} \cup ScopeDirs,
          spawn_task \in {NoTask} \cup
              {[cwd |-> c, env |-> EmptyEnv] : c \in {NoPath} \cup ScopeDirs},
          find_local_worktree \in [ScopeDirs -> {NoWorktree} \cup Resolved] :
           build = [step |-> "cwd",
                    working_directory |-> working_directory,
                    spawn_task |-> spawn_task,
                    find_local_worktree |-> find_local_worktree,
                    settings_location |-> NoLocation]
    /\ Lifecycle
    /\ probe = NoProbe
    /\ forward = NoForward

\* lines 74-90 of create_terminal
ResolveSettingsLocation ==
    /\ build.step = "cwd"
    /\ build' = [build EXCEPT
                    !.step = "location",
                    !.settings_location =
                        SettingsLocation(build.working_directory,
                                         build.spawn_task,
                                         build.find_local_worktree)]
    /\ UNCHANGED <<is_remote, remote_id, detect_venv, fs, local_handles,
                   remote_handles, entities, terminal, holders, observers,
                   input, pc, call, result, next_entity_id, observer_runs,
                   removals, probe, forward>>

NextScope == ResolveSettingsLocation

SpecScope == InitScope /\ [][NextScope]_vars

\* the explicit working directory lies in a local worktree
ExplicitResolves ==
    /\ build.working_directory # NoPath
    /\ build.find_local_worktree[build.working_directory] # NoWorktree

\* the task's working directory lies in a local worktree
TaskResolves ==
    /\ build.spawn_task # NoTask
    /\ build.spawn_task.cwd # NoPath
    /\ build.find_local_worktree[build.spawn_task.cwd] # NoWorktree

\* C15: the settings scope is the worktree location of the explicit working
\* directory when that resolves, else the location of the task's working
\* directory when that resolves, else the global scope; the task's directory
\* is never preferred over an explicit directory that resolves.
C15_SettingsScope ==
    build.step = "location" =>
        /\ ExplicitResolves =>
               build.settings_location =
                   build.find_local_worktree[build.working_directory]
        /\ ~ExplicitResolves /\ TaskResolves =>
               build.settings_location =
                   build.find_local_worktree[build.spawn_task.cwd]
        /\ ~ExplicitResolves /\ ~TaskResolves =>
               build.settings_location = NoLocation

C15_Witness ==
    /\ build.step = "location"
    /\ ExplicitResolves
    /\ TaskResolves
    /\ build.find_local_worktree[build.working_directory].worktree_id = 1
    /\ build.find_local_worktree[build.spawn_task.cwd].worktree_id = 2
    /\ build.settings_location.worktree_id = 1

\* ------------------------------------------- venv handling in the lifecycle

\* a session object exists for `id`
Built(id) == terminal[id] # NoCall

SessionBase(id) == VenvBaseDirectory(terminal[id].working_directory)

\* the candidate directories of the session, in listed order
SessionRootCandidate(id, i) ==
    PathJoin(SessionBase(id), RelPath(detect_venv.directories[i]))

\* the first listed candidate directory of the session that exists
SessionRoot(id) ==
    LET existing == {i \in 1..Len(detect_venv.directories) :
                        SessionRootCandidate(id, i) \in fs}
    IN IF existing = {} THEN NoPath
       ELSE SessionRootCandidate(id,
                CHOOSE i \in existing : \A j \in existing : i <= j)

\* no candidate script of the session's dialect exists
NoScript(id) ==
    \A i \in 1..Len(detect_venv.directories) :
        CandidatePath(detect_venv, SessionBase(id),
                      detect_venv.directories[i]) \notin fs

\* the env of the session before any venv handling
SessionOverlaidEnv(id) ==
    IF terminal[id].task
    THEN EnvExtend(LifecycleSettingsEnv, LifecycleTask.env)
    ELSE LifecycleSettingsEnv

HasPrefix(bytes, prefix) ==
    /\ Len(prefix) <= Len(bytes)
    /\ SubSeq(bytes, 1, Len(prefix)) = prefix

\* C16: a task session never has an activation command in its input and,
\* when detection is on and a root exists, has VIRTUAL_ENV and the venv's bin
\* in front of PATH in its env; an interactive session has the env of the
\* settings, nothing injected, and at most the activation command in its
\* input.
C16_VenvHandlingByKind ==
    \A id \in EntityIds :
        Built(id) =>
            IF terminal[id].task
            THEN /\ ActivateWrites(input[id]) = 0
                 /\ detect_venv.on /\ SessionRoot(id) # NoPath =>
                        LET bin == PathBytes(PathJoin(SessionRoot(id),
                                                      RelPath(BinName)))
                        IN /\ "VIRTUAL_ENV" \in DOMAIN terminal[id].env
                           /\ terminal[id].env["VIRTUAL_ENV"] =
                                  PathBytes(SessionRoot(id))
                           /\ (\A i \in 1..Len(bin) : bin[i] # ":") =>
                                  /\ "PATH" \in DOMAIN terminal[id].env
                                  /\ HasPrefix(terminal[id].env["PATH"], bin)
            ELSE /\ terminal[id].env = LifecycleSettingsEnv
                 /\ "VIRTUAL_ENV" \notin DOMAIN terminal[id].env
                 /\ "PATH" \notin DOMAIN terminal[id].env
                 /\ ActivateWrites(input[id]) <= 1

C16_Witness ==
    \E t, i \in EntityIds :
        /\ Created(t) /\ Created(i)
        /\ terminal[t].task
        /\ "VIRTUAL_ENV" \in DOMAIN terminal[t].env
        /\ ActivateWrites(input[t]) = 0
        /\ ~terminal[i].task
        /\ "VIRTUAL_ENV" \notin DOMAIN terminal[i].env
        /\ ActivateWrites(input[i]) = 1

\* detection is on and the search made for the session finds nothing
VenvMissing(id) ==
    /\ Built(id)
    /\ detect_venv.on
    /\ IF terminal[id].task THEN SessionRoot(id) = NoPath ELSE NoScript(id)

\* C17: with detection on and no candidate found the call does not fail, the
\* session is registered, no activation command is written and the env is
\* the settings env (under the task's env for a task), VIRTUAL_ENV and PATH
\* neither added nor changed.
C17_MissingVenvIsNoError ==
    /\ ~is_remote => pc # "panicked"
    /\ result.kind = "err" => ~result.pty_ok
    /\ \A id \in EntityIds :
           VenvMissing(id) =>
               /\ ActivateWrites(input[id]) = 0
               /\ terminal[id].env = SessionOverlaidEnv(id)
               /\ Created(id) /\ entities[id] = "live" =>
                      Occurrences(local_handles, id) = 1

C17_Witness ==
    /\ pc = "idle"
    /\ result.kind = "ok"
    /\ \E t, i \in EntityIds :
           /\ VenvMissing(t) /\ VenvMissing(i)
           /\ terminal[t].task /\ ~terminal[i].task
           /\ entities[t] = "live" /\ entities[i] = "live"
           /\ {t, i} \subseteq Registered(local_handles)

\* C18: create_terminal on a remote project without a remote id ends with an
\* error returned to the caller, both registries as they were and no
\* forwarding function installed.
C18_MissingRemoteIdIsReturned ==
    is_remote /\ remote_id = 0 /\ result.kind # "none" =>
        /\ result.kind = "err"
        /\ result.handles_unchanged
        /\ remote_handles = {}

\* what does hold of the call: it changes neither registry
C18_RemoteCallLeavesRegistries ==
    is_remote /\ result.kind # "none" =>
        /\ result.handles_unchanged
        /\ remote_handles = {}
        /\ local_handles = <<>>

\* ------------------------------------------------ the completion channel

\* bounded(1)
CompletionCapacity == 1

\* Where an end of the channel of one call is: "none" before bounded(1),
\* "local" in a local of create_terminal, "task_state" in the TaskState
\* local, "builder" inside the TerminalBuilder, "driver" / "status" in the
\* Terminal (its process driver, its task's status), "dropped" once gone.
NoChannel ==
    [step |-> "args", task |-> FALSE, tx |-> "none", rx |-> "none",
     queue |-> 0, sent |-> 0, exited |-> FALSE]

\* the steps at which a call is inside create_terminal
InCreate == {"channel", "task_state", "built", "failed", "session"}

\* a slip: the receiver is never put into the TaskState
ReceiverKeptLocal(is_task) == "local"

\* `completion_rx` after the `if let Some(spawn_task)` block: moved into the
\* TaskState for a task, still the local otherwise
ReceiverAfterTaskState(is_task) ==
    IF is_task THEN "task_state" ELSE "local"

\* an end that was moved into TerminalBuilder::new, after the call
MovedIntoBuilder(end, pty_ok) ==
    IF end \in {"local", "task_state"}
    THEN IF pty_ok THEN "builder" ELSE "dropped"
    ELSE end

\* a local of create_terminal when the function returns
DroppedAtReturn(end) == IF end = "local" THEN "dropped" ELSE end

InitCompletion ==
    /\ is_remote = FALSE
    /\ remote_id = 0
    /\ detect_venv = VenvOff
    /\ fs = {}
    /\ build = [c \in 1..MaxSessions |-> NoChannel]
    /\ Lifecycle
    /\ probe = NoProbe
    /\ forward = NoForward

completion_unchanged ==
    <<is_remote, remote_id, detect_venv, fs, local_handles, remote_handles,
      entities, terminal, holders, observers, input, pc, call, result,
      next_entity_id, observer_runs, removals, probe, forward>>

\* let (completion_tx, completion_rx) = bounded(1);
Bounded(c, is_task) ==
    /\ build[c].step = "args"
    /\ \A d \in 1..MaxSessions : build[d].step \notin InCreate
    /\ build' = [build EXCEPT ![c] =
                    [@ EXCEPT !.step = "channel", !.task = is_task,
                              !.tx = "local", !.rx = "local"]]
    /\ UNCHANGED completion_unchanged

\* the `if let Some(spawn_task) = spawn_task { .. } else { .. }` block
MakeTaskState(c) ==
    /\ build[c].step = "channel"
    /\ build' = [build EXCEPT ![c] =
                    [@ EXCEPT !.step = "task_state",
                              !.rx = ReceiverAfterTaskState(build[c].task)]]
    /\ UNCHANGED completion_unchanged

\* TerminalBuilder::new(.., spawn_task, .., completion_tx): the sender and
\* the TaskState are moved in; an Err leaves nothing of them behind
TerminalBuilderNew(c, pty_ok) ==
    /\ build[c].step = "task_state"
    /\ build' = [build EXCEPT ![c] =
                    [@ EXCEPT !.step = IF pty_ok THEN "built" ELSE "failed",
                              !.tx = MovedIntoBuilder("local", pty_ok),
                              !.rx = IF build[c].rx = "task_state"
                                     THEN MovedIntoBuilder("task_state", pty_ok)
                                     ELSE build[c].rx]]
    /\ UNCHANGED completion_unchanged

\* cx.new_model(|cx| builder.subscribe(cx)): the Terminal takes what the
\* builder held
Subscribe(c) ==
    /\ build[c].step = "built"
    /\ build' = [build EXCEPT ![c] =
                    [@ EXCEPT !.step = "session",
                              !.tx = "driver",
                              !.rx = IF build[c].rx = "builder" THEN "status"
                                     ELSE build[c].rx]]
    /\ UNCHANGED completion_unchanged

\* create_terminal returns, Ok or Err: its locals are dropped
ReturnFromCreate(c) ==
    /\ build[c].step \in {"session", "failed"}
    /\ build' = [build EXCEPT ![c] =
                    [@ EXCEPT !.step = IF build[c].step = "session"
                                       THEN "live" ELSE "err",
                              !.rx = DroppedAtReturn(build[c].rx)]]
    /\ UNCHANGED completion_unchanged

\* the child process exits and the driver reports it: try_send succeeds when
\* the receiver is alive and the channel is not full
ChildExit(c) ==
    /\ build[c].step = "live"
    /\ ~build[c].exited
    /\ LET delivered == /\ build[c].rx = "status"
                        /\ build[c].queue < CompletionCapacity
       IN build' = [build EXCEPT ![c] =
                       [@ EXCEPT !.exited = TRUE,
                                 !.queue = IF delivered THEN @ + 1 ELSE @,
                                 !.sent = IF delivered THEN @ + 1 ELSE @]]
    /\ UNCHANGED completion_unchanged

\* the task's status takes the exit status out of the channel
ReceiveStatus(c) ==
    /\ build[c].step = "live"
    /\ build[c].rx = "status"
    /\ build[c].queue > 0
    /\ build' = [build EXCEPT ![c] = [@ EXCEPT !.queue = @ - 1]]
    /\ UNCHANGED completion_unchanged

\* the Terminal is released: its driver and its task state go with it
ReleaseSession(c) ==
    /\ build[c].step = "live"
    /\ build' = [build EXCEPT ![c] =
                    [@ EXCEPT !.step = "released", !.tx = "dropped",
                              !.rx = "dropped", !.queue = 0]]
    /\ UNCHANGED completion_unchanged

NextCompletion ==
    \E c \in 1..MaxSessions :
        \/ \E is_task \in BOOLEAN : Bounded(c, is_task)
        \/ MakeTaskState(c)
        \/ \E pty_ok \in BOOLEAN : TerminalBuilderNew(c, pty_ok)
        \/ Subscribe(c)
        \/ ReturnFromCreate(c)
        \/ ChildExit(c)
        \/ ReceiveStatus(c)
        \/ ReleaseSession(c)

SpecCompletion == InitCompletion /\ [][NextCompletion]_vars

Gone(end) == end \in {"none", "dropped"}

\* C19 as stated: once a call has ended, the sender is held by the driver of
\* a live session whose status holds the receiver, or both ends are gone;
\* at most one exit status is ever sent.
C19_NoOrphanedSender ==
    \A c \in 1..MaxSessions :
        /\ build[c].sent <= 1
        /\ build[c].step \notin InCreate =>
               \/ /\ build[c].step = "live"
                  /\ build[c].tx = "driver"
                  /\ build[c].rx = "status"
               \/ Gone(build[c].tx) /\ Gone(build[c].rx)

\* C19: once a call has ended, a live task session has the sender in its
\* driver and the receiver in its status; a live interactive session has the
\* sender in its driver and no receiver, and nothing is ever delivered on
\* its channel; after an Err or a release both ends are gone; the channel
\* never holds more than its capacity and at most one exit status is sent.
C19_CompletionEnds ==
    \A c \in 1..MaxSessions :
        /\ build[c].sent <= 1
        /\ build[c].queue <= CompletionCapacity
        /\ build[c].step = "live" /\ build[c].task =>
               build[c].tx = "driver" /\ build[c].rx = "status"
        /\ build[c].step = "live" /\ ~build[c].task =>
               /\ build[c].tx = "driver"
               /\ build[c].rx = "dropped"
               /\ build[c].sent = 0
        /\ build[c].step \in {"err", "released"} =>
               build[c].tx = "dropped" /\ build[c].rx = "dropped"
        /\ build[c].step = "args" =>
               build[c].tx = "none" /\ build[c].rx = "none"

C19_Witness ==
    \E c, d \in 1..MaxSessions :
        /\ build[c].step = "live" /\ build[c].task
        /\ build[c].exited /\ build[c].sent = 1
        /\ build[d].step = "live" /\ ~build[d].task
        /\ build[d].exited /\ build[d].sent = 0
        /\ build[d].rx = "dropped"

\* a response for remote terminal t arrives in this step
Responded(t) == Len(forward'[t].flows) > Len(forward[t].flows)

\* the request of t answered in this step failed
FailedNow(t) ==
    /\ Responded(t)
    /\ ~forward'[t].acknowledged[Len(forward'[t].flows)]

SystemShell == [kind |-> "System"]
SettingsShells ==
    { SystemShell,
      [kind |-> "Program", program |-> "zsh"],
      [kind |-> "WithArguments", program |-> "bash", args |-> <<"-l">>] }

\* task descriptors (SpawnInTerminal) a caller may pass
ArgTasks ==
    {[id |-> t.id, full_label |-> t.id, label |-> t.id,
      command_label |-> t.command, command |-> t.command, args |-> t.args,
      cwd |-> c, env |-> LifecycleTask.env] :
        t \in {[id |-> "build", command |-> "cargo", args |-> <<"build">>],
               [id |-> "shell", command |-> "bash", args |-> <<"-l">>]},
        c \in {NoPath, ProjectDir, SpacedDir}}

ArgBases == {EmptyPath, ProjectDir, SpacedDir}

\* a virtual environment named venv under `base`, with its default script
VenvAt(base) ==
    {PathJoin(base, RelPath(VenvName)),
     CandidatePath(DefaultVenv, base, VenvName)}

ArgFileSystems == {UNION {VenvAt(b) : b \in bases} : bases \in SUBSET ArgBases}

ArgWorktrees ==
    [ScopeDirs -> {NoWorktree} \cup
        {[worktree_id |-> w, path |-> EmptyPath] : w \in 1..MaxWorktrees}]

NoTaskState == [none |-> TRUE]

\* a slip: the shell of the settings is used for every session
TaskStateAndShellOfSettings(spawn_task, settings_shell) ==
    [task |-> IF spawn_task = [none |-> TRUE] THEN NoTaskState
              ELSE [id |-> spawn_task.id,
                    full_label |-> spawn_task.full_label,
                    label |-> spawn_task.label,
                    command_label |-> spawn_task.command_label,
                    status |-> "Running",
                    completion_rx |-> TRUE],
     shell |-> settings_shell]

\* `let (spawn_task, shell) = if let Some(spawn_task) = spawn_task { .. }
\* else { (None, settings.shell.clone()) }`
TaskStateAndShell(spawn_task, settings_shell) ==
    IF spawn_task # [none |-> TRUE]
    THEN [task |-> [id |-> spawn_task.id,
                    full_label |-> spawn_task.full_label,
                    label |-> spawn_task.label,
                    command_label |-> spawn_task.command_label,
                    status |-> "Running",
                    completion_rx |-> TRUE],
          shell |-> [kind |-> "WithArguments",
                     program |-> spawn_task.command,
                     args |-> spawn_task.args]]
    ELSE [task |-> NoTaskState, shell |-> settings_shell]

\* a slip: with no explicit directory the task's directory is spawned in
BuilderWorkingDirectoryOrTask(working_directory, spawn_task, settings_location) ==
    IF working_directory # NoPath THEN working_directory
    ELSE IF spawn_task # [none |-> TRUE] THEN spawn_task.cwd
    ELSE NoPath

\* the first argument of TerminalBuilder::new: working_directory.clone()
BuilderWorkingDirectory(working_directory, spawn_task, settings_location) ==
    working_directory

InitArgs ==
    /\ is_remote = FALSE
    /\ remote_id = 0
    /\ detect_venv \in {VenvOff, DefaultVenv}
    /\ fs \in ArgFileSystems
    /\ \E working_directory \in {NoPath, ProjectDir, SpacedDir},
          spawn_task \in {NoTask} \cup ArgTasks,
          shell \in SettingsShells,
          find_local_worktree \in ArgWorktrees :
           build = [step |-> "args",
                    working_directory |-> working_directory,
                    spawn_task |-> spawn_task,
                    settings_shell |-> shell,
                    find_local_worktree |-> find_local_worktree]
    /\ Lifecycle
    /\ probe = NoProbe
    /\ forward = NoForward

\* lines 74-144 of create_terminal: everything computed up to and handed to
\* TerminalBuilder::new, and the activation the closure writes afterwards
BuildArguments ==
    /\ build.step = "args"
    /\ LET working_directory == build.working_directory
           spawn_task == build.spawn_task
           settings_location ==
               SettingsLocation(working_directory, spawn_task,
                                build.find_local_worktree)
           is_terminal == spawn_task = NoTask
           venv_base_directory == VenvBaseDirectory(working_directory)
           task_and_shell == TaskStateAndShell(spawn_task, build.settings_shell)
       IN build' =
              [step |-> "built",
               working_directory |-> working_directory,
               spawn_task |-> spawn_task,
               settings_shell |-> build.settings_shell,
               find_local_worktree |-> build.find_local_worktree,
               settings_location |-> settings_location,
               is_terminal |-> is_terminal,
               venv_base_directory |-> venv_base_directory,
               builder |->
                   [working_directory |->
                        BuilderWorkingDirectory(working_directory, spawn_task,
                                                settings_location),
                    spawn_task |-> task_and_shell.task,
                    shell |-> task_and_shell.shell,
                    env |-> BuildEnv(LifecycleSettingsEnv, spawn_task,
                                detect_venv, venv_base_directory, fs,
                                LifecycleProcessPath)],
               activation |-> ActivationWrites(is_terminal, detect_venv,
                                  venv_base_directory, fs)]
    /\ UNCHANGED <<is_remote, remote_id, detect_venv, fs, local_handles,
                   remote_handles, entities, terminal, holders, observers,
                   input, pc, call, result, next_entity_id, observer_runs,
                   removals, probe, forward>>

NextArgs == BuildArguments

SpecArgs == InitArgs /\ [][NextArgs]_vars

ArgsBuilt == build.step = "built"

\* C21: a session built from a task descriptor has a task state with the
\* descriptor's id and labels, status Running and a completion receiver, and
\* runs the descriptor's program with its arguments; a session built without
\* one has no task state and runs the shell of the settings; whether there
\* is a task state depends on the presence of the descriptor alone.
C21_KindFollowsDescriptor ==
    ArgsBuilt =>
        /\ build.builder.spawn_task # NoTaskState <=> build.spawn_task # NoTask
        /\ build.is_terminal <=> build.spawn_task = NoTask
        /\ build.spawn_task # NoTask =>
               /\ build.builder.spawn_task.status = "Running"
               /\ build.builder.spawn_task.completion_rx
               /\ build.builder.spawn_task.id = build.spawn_task.id
               /\ build.builder.spawn_task.label = build.spawn_task.label
               /\ build.builder.shell.kind = "WithArguments"
               /\ build.builder.shell.program = build.spawn_task.command
               /\ build.builder.shell.args = build.spawn_task.args
        /\ build.spawn_task = NoTask =>
               build.builder.shell = build.settings_shell

C21_Witness ==
    /\ ArgsBuilt
    /\ build.spawn_task # NoTask
    /\ build.spawn_task.command = "cargo"
    /\ build.settings_shell.kind = "WithArguments"
    /\ build.builder.shell =
           [kind |-> "WithArguments", program |-> "cargo", args |-> <<"build">>]
    /\ build.builder.spawn_task.status = "Running"

\* C23: the working directory handed to TerminalBuilder::new is the caller's
\* working_directory argument, whatever settings location and worktree were
\* resolved and whatever the task's own working directory is.
C23_SpawnDirectoryIsArgument ==
    ArgsBuilt => build.builder.working_directory = build.working_directory

C23_Witness ==
    /\ ArgsBuilt
    /\ build.working_directory = NoPath
    /\ build.spawn_task # NoTask
    /\ build.spawn_task.cwd = ProjectDir
    /\ build.settings_location # NoLocation
    /\ build.settings_location = build.find_local_worktree[ProjectDir]
    /\ build.builder.working_directory = NoPath

\* the base the claim names: the explicit directory, else the empty path
ExplicitOrEmpty ==
    IF build.working_directory = NoPath THEN EmptyPath
    ELSE build.working_directory

\* C25: the base probed for a virtual environment is the caller's explicit
\* working directory, or the empty relative path when none is given: a task
\* gets VIRTUAL_ENV exactly when a candidate directory exists under that
\* base, an interactive session gets the activation command exactly when a
\* candidate script exists under it, and an environment under the task's own
\* working directory is never used.
C25_ProbeBaseIsExplicitOrEmpty ==
    ArgsBuilt /\ detect_venv.on =>
        LET root(i) == PathJoin(ExplicitOrEmpty,
                                RelPath(detect_venv.directories[i]))
            script(i) == CandidatePath(detect_venv, ExplicitOrEmpty,
                                       detect_venv.directories[i])
            names == 1..Len(detect_venv.directories)
        IN /\ build.venv_base_directory = ExplicitOrEmpty
           /\ build.spawn_task # NoTask =>
                  /\ "VIRTUAL_ENV" \in DOMAIN build.builder.env <=>
                         \E i \in names : root(i) \in fs
                  /\ "VIRTUAL_ENV" \in DOMAIN build.builder.env =>
                         \E i \in names :
                             build.builder.env["VIRTUAL_ENV"] =
                                 PathBytes(root(i))
           /\ build.spawn_task = NoTask =>
                  /\ build.activation # <<>> <=>
                         \E i \in names : script(i) \in fs
                  /\ build.activation # <<>> =>
                         \E i \in names :
                             build.activation[1].bytes =
                                 ActivateCommand(SourceVerb, script(i))

C25_Witness ==
    /\ ArgsBuilt
    /\ detect_venv.on
    /\ build.working_directory = NoPath
    /\ build.spawn_task # NoTask
    /\ build.spawn_task.cwd = ProjectDir
    /\ build.settings_location = build.find_local_worktree[ProjectDir]
    /\ build.settings_location # NoLocation
    /\ fs = VenvAt(ProjectDir)
    /\ "VIRTUAL_ENV" \notin DOMAIN build.builder.env

\* C22: find_activate_script_path checks the candidates in declared order,
\* each listed candidate at most once, and checks none after the first one
\* that exists.
C22_OneCheckPerCandidate ==
    probe.step \in {"found", "command"} =>
        LET dirs == detect_venv.directories
            checks == probe.checks
        IN /\ Len(checks) <= Len(dirs)
           /\ \A k \in 1..Len(checks) :
                  /\ checks[k] = CandidatePath(detect_venv, probe.base, dirs[k])
                  /\ k < Len(checks) => checks[k] \notin fs
           /\ Len(checks) < Len(dirs) => checks[Len(checks)] \in fs
           /\ probe.found # NoPath => probe.found = checks[Len(checks)]

C22_Witness ==
    /\ probe.step = "found"
    /\ probe.base = ProjectDir
    /\ detect_venv.directories = <<VenvName, EnvName>>
    /\ CandidatePath(detect_venv, ProjectDir, VenvName) \in fs
    /\ CandidatePath(detect_venv, ProjectDir, EnvName) \in fs
    /\ probe.checks = <<CandidatePath(detect_venv, ProjectDir, VenvName)>>

\* ------------------------------------------ the release observer on its own

\* entity ids that may be in the registry
ObserverIds == 1..(MaxSessions + 1)

\* registries without repeated entries, in any order
Registries ==
    {h \in UNION {[1..n -> ObserverIds] : n \in 0..(MaxSessions + 1)} :
        \A i, j \in 1..Len(h) : h[i] = h[j] => i = j}

InitObserver ==
    /\ is_remote = FALSE
    /\ remote_id = 0
    /\ detect_venv = VenvOff
    /\ fs = {}
    /\ local_handles \in Registries
    /\ remote_handles \in SUBSET RemoteTerminalIds
    /\ NoSessions
    /\ probe = NoProbe
    /\ forward = NoForward
    /\ build = [step |-> "idle", runs |-> [id \in ObserverIds |-> 0]]

\* the release observer of `id` runs: at the release of the entity and, as
\* in SpecRerelease, once more when the notification is delivered again
RunReleaseObserver(id) ==
    /\ build.runs[id] < 2
    /\ LET r == ReleaseObserver(local_handles, id)
       IN /\ local_handles' = r.handles
          /\ build' = [step |-> "ran",
                       runs |-> [build.runs EXCEPT ![id] = @ + 1],
                       id |-> id,
                       handles_before |-> local_handles,
                       remote_before |-> remote_handles,
                       notified |-> r.notified]
    /\ UNCHANGED <<is_remote, remote_id, detect_venv, fs, remote_handles,
                   entities, terminal, holders, observers, input, pc, call,
                   result, next_entity_id, observer_runs, removals, probe,
                   forward>>

NextObserver == \E id \in ObserverIds : RunReleaseObserver(id)

SpecObserver == InitObserver /\ [][NextObserver]_vars

\* C24: a run of the release observer of `id` leaves local_handles as it was
\* without the entry of `id`, the other entries in their order, leaves
\* remote_handles alone, and notifies exactly when an entry was removed.
C24_ObserverRemovesOwnEntryOnly ==
    build.step = "ran" =>
        /\ local_handles =
               SelectSeq(build.handles_before, LAMBDA h : h # build.id)
        /\ remote_handles = build.remote_before
        /\ build.notified <=> Len(local_handles) < Len(build.handles_before)
        /\ build.notified <=> build.id \in Registered(build.handles_before)

C24_Witness ==
    /\ build.step = "ran"
    /\ build.id = 2
    /\ build.handles_before = <<1, 2, 3>>
    /\ local_handles = <<1, 3>>
    /\ build.notified
    /\ remote_handles # {}

====
